---------------------------- MODULE Spec2Model ----------------------------
(***************************************************************************)
(* Model of the chat (RAG) pipeline of the hackathon backend:              *)
(*   app/chat/services/chat_service.py   ChatService.process_chat          *)
(*   app/chat/services/gemini_service.py GeminiService                     *)
(*   app/database/queries.py             find_many, get_courses_by_...     *)
(*                                                                         *)
(* Two specifications live in this module.                                 *)
(*   SpecExtract  applies the pure function _extract_siglas to every raw   *)
(*                text up to MaxLen characters and every vocabulary of     *)
(*                Vocabularies.                                            *)
(*   Spec         is one run of process_chat against a nondeterministic    *)
(*                LLM provider and a nondeterministic record repository.   *)
(* Texts are TLA+ strings at the interfaces and sequences of one-character *)
(* strings inside the string functions.                                    *)
(***************************************************************************)
EXTENDS Integers, Sequences, FiniteSets, TLC

VARIABLES
    \* ---- SpecExtract: one call of _extract_siglas
    ex_pc,              \* "input" before the call, "returned" after it
    ex_response,        \* argument `response` (a string)
    ex_courses,         \* argument `available_courses`
    ex_comma,           \* local found_siglas after the comma pass
    ex_result,          \* the returned list
    \* ---- Spec: one request to POST /chat and its run of process_chat
    request,            \* request.messages of the ChatRequest
    http,               \* what the route answered, NoAnswer before
    pc,                 \* where the coroutine is suspended / how it ended
    messages,           \* argument `messages`
    relevant_siglas,    \* local relevant_siglas (a list, no code yet: <<>>)
    idx,                \* position of the for loop in relevant_siglas
    courses_context,    \* local courses_context
    response,           \* the value of result["response"], NoResponse before
    raised,             \* the exception process_chat raised, NoExc if none
    log,                \* history of the calls to the collaborators
    \* ---- SpecMulti: several requests served by one event loop
    m_request,          \* per run: request.messages
    m_pc,               \* per run: where its coroutine is suspended
    m_frames,           \* per storage cell: the per-request data kept there
    m_log,              \* per run: history of its calls to the collaborators
    m_loop,             \* the run whose blocking call holds the loop thread, or 0
    \* ---- SpecFormat: one call of generate_response
    f_pc,               \* "input", "generate_llm" at its await, "returned"
    f_conversation,     \* argument `conversation`
    f_courses,          \* argument `courses_context`
    f_prompt,           \* the values put into the prompt
    f_out,              \* what the call returned or raised
    \* ---- SpecMongo: the global connection `mongodb`
    d_pc,               \* "idle", or the await connect_to_mongo is suspended at
    d_settings,         \* settings.MONGODB_URL and settings.MONGODB_DB_NAME
    d_client,           \* mongodb.client (None or a client)
    d_database,         \* mongodb.database (None or a database handle)
    d_last,             \* the last call that ended, and how
    d_calls,            \* calls made so far
    \* ---- SpecSearch: one request to GET /search
    s_pc,               \* "input", "db" at the await of the search, "answered"
    s_query,            \* the query parameters of the request
    s_matching,         \* how many documents match the criteria
    s_answer            \* what the route answered

exvars == <<ex_pc, ex_response, ex_courses, ex_comma, ex_result>>
runvars == <<request, http, pc, messages, relevant_siglas, idx, courses_context, response,
             raised, log>>
mvars == <<m_request, m_pc, m_frames, m_log, m_loop>>
fvars == <<f_pc, f_conversation, f_courses, f_prompt, f_out>>
dbvars == <<d_pc, d_settings, d_client, d_database, d_last, d_calls>>
svars == <<s_pc, s_query, s_matching, s_answer>>
sidevars == <<fvars, dbvars, svars>>
vars == <<ex_pc, ex_response, ex_courses, ex_comma, ex_result,
          request, http, pc, messages, relevant_siglas, idx, courses_context,
          response, raised, log,
          m_request, m_pc, m_frames, m_log, m_loop,
          f_pc, f_conversation, f_courses, f_prompt, f_out,
          d_pc, d_settings, d_client, d_database, d_last, d_calls,
          s_pc, s_query, s_matching, s_answer>>

---------------------------------------------------------------------------
(* Bounds of the model *)

\* longest raw text given to _extract_siglas in SpecExtract
MaxLen == 4
\* most documents the repository holds for one course code
MaxRecords == 6
\* requests served concurrently in SpecMulti
NumRuns == 2
\* most messages of a conversation in SpecFormat
MaxMsgs == 3
\* most pros of a course record in SpecFormat
MaxItems == 4
\* most calls to the connection functions in SpecMongo
MaxCalls == 4

---------------------------------------------------------------------------
(* Python str, modelled on sequences of one-character strings *)

Chars(s) == [i \in 1..Len(s) |-> SubSeq(s, i, i)]

RECURSIVE Str(_)
Str(cs) == IF cs = <<>> THEN "" ELSE Head(cs) \o Str(Tail(cs))

Min(a, b) == IF a <= b THEN a ELSE b

Range(f) == {f[i] : i \in DOMAIN f}

LowerLetters == Chars("abcdefghijklmnopqrstuvwxyz")
UpperLetters == Chars("ABCDEFGHIJKLMNOPQRSTUVWXYZ")
Digits == Chars("0123456789")

\* the characters str.strip() removes at both ends
Whitespace == {" ", "\t", "\n", "\r"}

\* the characters the regular expression class \w matches
WordChars == Range(LowerLetters) \cup Range(UpperLetters) \cup Range(Digits) \cup {"_"}

UpperChar(c) ==
    IF \E i \in 1..26 : LowerLetters[i] = c
    THEN UpperLetters[CHOOSE i \in 1..26 : LowerLetters[i] = c]
    ELSE c

\* str.upper()
Upper(cs) == [i \in 1..Len(cs) |-> UpperChar(cs[i])]

RECURSIVE LStrip(_)
LStrip(cs) ==
    IF cs # <<>> /\ Head(cs) \in Whitespace THEN LStrip(Tail(cs)) ELSE cs

RECURSIVE RStrip(_)
RStrip(cs) ==
    IF cs # <<>> /\ cs[Len(cs)] \in Whitespace
    THEN RStrip(SubSeq(cs, 1, Len(cs) - 1))
    ELSE cs

\* variant of Strip: nothing is removed
StripNothing(cs) == cs

\* str.strip()
Strip(cs) == RStrip(LStrip(cs))

\* str.strip(chars): the characters of S removed at both ends
RECURSIVE StripChars(_, _)
StripChars(cs, S) ==
    IF cs # <<>> /\ Head(cs) \in S THEN StripChars(Tail(cs), S)
    ELSE IF cs # <<>> /\ cs[Len(cs)] \in S
    THEN StripChars(SubSeq(cs, 1, Len(cs) - 1), S)
    ELSE cs

\* str.replace(ch, "")
RemoveChar(cs, ch) == SelectSeq(cs, LAMBDA c : c # ch)

\* str.split(","): the pieces between the commas, empty pieces included
RECURSIVE SplitComma(_)
SplitComma(cs) ==
    IF \E i \in 1..Len(cs) : cs[i] = ","
    THEN LET k == CHOOSE i \in 1..Len(cs) :
                      cs[i] = "," /\ \A j \in 1..(i - 1) : cs[j] # ","
         IN <<SubSeq(cs, 1, k - 1)>> \o SplitComma(SubSeq(cs, k + 1, Len(cs)))
    ELSE <<cs>>

\* whether position k (1..Len) of cs holds a \w character; FALSE outside
IsWordAt(cs, k) == k \in 1..Len(cs) /\ cs[k] \in WordChars

\* the regular expression assertion \b between positions k and k+1
WordBoundary(cs, k) == IsWordAt(cs, k) # IsWordAt(cs, k + 1)

\* variant of SearchWholeWord: the pattern has no \b
SearchSubstring(sigla, text) ==
    \E p \in 1..(Len(text) - Len(sigla) + 1) :
        SubSeq(text, p, p + Len(sigla) - 1) = sigla

\* re.search(r'\b' + re.escape(sigla) + r'\b', text) is not None
SearchWholeWord(sigla, text) ==
    \E p \in 1..(Len(text) - Len(sigla) + 1) :
        /\ SubSeq(text, p, p + Len(sigla) - 1) = sigla
        /\ WordBoundary(text, p - 1)
        /\ WordBoundary(text, p + Len(sigla) - 1)

\* all orders in which the elements of a finite set can be listed
ListsOf(S) ==
    {f \in [1..Cardinality(S) -> S] : \A i, j \in DOMAIN f : f[i] = f[j] => i = j}

---------------------------------------------------------------------------
(* GeminiService._extract_siglas *)

\* all_siglas: the upper-cased codes of every vocabulary entry; an entry's
\* first element is its display name
AllSiglas(available_courses) ==
    UNION { {Upper(Chars(course[i])) : i \in 2..Len(course)} :
            course \in Range(available_courses) }

\* variant of CleanToken: whitespace and periods are removed at the ends only
CleanTokenEnds(s) == StripChars(Upper(Strip(s)), Whitespace \cup {"."})

\* a comma-separated piece as it is compared with all_siglas
CleanToken(s) ==
    RemoveChar(RemoveChar(Strip(Upper(Strip(s))), "."), " ")

\* variant of KeepToken: every cleaned piece is kept, known or not
KeepTokenAny(sigla, all_siglas) == TRUE

\* the membership test that keeps a cleaned piece
KeepToken(sigla, all_siglas) == sigla \in all_siglas

\* found_siglas after the comma pass (in text order, repetitions kept)
CommaPass(text, all_siglas) ==
    IF \E i \in 1..Len(text) : text[i] = ","
    THEN LET potential_siglas ==
                 [i \in 1..Len(SplitComma(text)) |->
                      CleanToken(SplitComma(text)[i])]
         IN SelectSeq(potential_siglas, LAMBDA sigla : KeepToken(sigla, all_siglas))
    ELSE <<>>

\* the codes the whole-word scan appends; all_siglas is a Python set, the
\* order of the appends is irrelevant because the caller builds a set again
ScanPass(text, all_siglas) ==
    LET hits == {sigla \in all_siglas : SearchWholeWord(sigla, text)}
    IN CHOOSE f \in ListsOf(hits) : TRUE

\* variant of FoundSiglas: the scan runs whatever the comma pass found
FoundSiglasBoth(text, all_siglas) ==
    CommaPass(text, all_siglas) \o ScanPass(text, all_siglas)

\* found_siglas at the return statement, for the stripped upper-cased text
FoundSiglas(text, all_siglas) ==
    LET by_commas == CommaPass(text, all_siglas)
    IN IF by_commas = <<>> THEN ScanPass(text, all_siglas) ELSE by_commas

\* variant of ListOfSet: found_siglas is returned as it is
ListOfSetKeep(found_siglas) == {found_siglas}

\* list(set(found_siglas)): every order the set can be listed in
ListOfSet(found_siglas) == ListsOf(Range(found_siglas))

\* the lists (of strings) a call of _extract_siglas can return
\* (text is the argument `response`)
_extract_siglas(text, available_courses) ==
    IF text = "" THEN {<<>>}
    ELSE IF AllSiglas(available_courses) = {} THEN {<<>>}
    ELSE LET found == FoundSiglas(Upper(Strip(Chars(text))),
                                  AllSiglas(available_courses))
         IN {[i \in DOMAIN l |-> Str(l[i])] : l \in ListOfSet(found)}

\* found_siglas (as strings) when the comma pass is over; <<>> when the call
\* returned before it
FoundByCommas(text, available_courses) ==
    IF text = "" \/ AllSiglas(available_courses) = {} THEN <<>>
    ELSE LET found == CommaPass(Upper(Strip(Chars(text))),
                                AllSiglas(available_courses))
         IN [i \in DOMAIN found |-> Str(found[i])]

\* the known codes as strings
KnownCodes(available_courses) ==
    {Str(sigla) : sigla \in AllSiglas(available_courses)}

---------------------------------------------------------------------------
(* Values *)

\* Optional[str]: <<>> is None, <<s>> is the string s
None == <<>>
Some(s) == <<s>>

\* exceptions
\* exceptions: the class, the message, and the class of the exception it
\* wraps ("" when it wraps none)
Exc(type, msg) == [type |-> type, msg |-> msg, cause |-> ""]
NoExc == Exc("none", "")
ProviderError == Exc("ProviderError", "generate_content failed")
UnexpectedFormat == Exc("ValueError", "Formato de respuesta inesperado de Gemini")
EmptyResponse == Exc("ValueError", "Respuesta vacia de Gemini")
RepositoryError == Exc("RepositoryError", "find failed")

\* the outcome of a call returning text: a value or a raised exception
Return(v) == [ok |-> TRUE, val |-> v, exc |-> NoExc]
Raise(e) == [ok |-> FALSE, val |-> "", exc |-> e]

\* the outcome of a call returning a list
ReturnList(l) == [ok |-> TRUE, list |-> l, exc |-> NoExc]
RaiseList(e) == [ok |-> FALSE, list |-> <<>>, exc |-> e]

---------------------------------------------------------------------------
(* chat_service.py: constants *)

AVAILABLE_COURSES == <<
    <<"Calculo 2", "MAT1620">>,
    <<"Optimizacion", "ICS1113">>,
    <<"Electricidad y Magnetismo", "FIS1533">>,
    <<"Termodinamica", "FIS1523", "IIQ1003">>,
    <<"Programacion Avanzada", "IIC2233">>,
    <<"Probabilidades y Estadistica", "EYP1113">>,
    <<"Analisis Forense", "QIM122">>,
    <<"Biologia de la Celula", "BIO141C">>,
    <<"Introduccion a la Argumentacion", "FIL2006">>,
    <<"Tenis 1", "DPT6500">>,
    <<"Dinamica", "FIS0154", "ICE1514">>,
    <<"Introduccion a la Programacion", "IIC1103">>,
    <<"Calculo 3", "MAT1630">>,
    <<"Ecuaciones Diferenciales", "MAT1640">>,
    <<"Busqueda Religiosa y Cristianismo", "TTF202">>,
    <<"Introduccion a la Economia", "ICS1513">>,
    <<"Etica para Ingenieria", "ETI188">>,
    <<"Modelos Estocasticos", "ICS2123">>,
    <<"Investigacion, Innovacion y Emprendimiento", "ING2030">>
>>

\* the fixed answer of a run without context (accents dropped)
Fallback ==
    "No tengo informacion especifica sobre los cursos mencionados en la base de datos."

\* limit=5 of the lookup process_chat issues per code
LookupLimit == 5

---------------------------------------------------------------------------
(* database/queries.py *)

\* length of cursor.to_list when no limit is given
ToListDefault == 1000

\* a document of cursos_filtrados: its code and its section number
Doc(code, i) == [course_code |-> code, nrc |-> i]

\* the collection when it holds n sections of `code`, in its natural order,
\* among sections of another course
Collection(code, n) ==
    <<Doc("OTHER000", 1)>> \o [i \in 1..n |-> Doc(code, i)] \o <<Doc("OTHER000", 2)>>

\* variant of find_many: the limit is not applied
find_many_unlimited(collection, course_code, limit) ==
    SelectSeq(collection, LAMBDA d : d.course_code = course_code)

\* find_many(COLLECTION_NAME, {"course_code": course_code}, limit=limit);
\* a limit of None is written 0: both are falsy in `if limit` and `limit or 1000`
find_many(collection, course_code, limit) ==
    LET cursor == SelectSeq(collection, LAMBDA d : d.course_code = course_code)
        limited == IF limit # 0
                   THEN SubSeq(cursor, 1, Min(limit, Len(cursor)))
                   ELSE cursor
        length == IF limit # 0 THEN limit ELSE ToListDefault
    IN SubSeq(limited, 1, Min(length, Len(limited)))

get_courses_by_course_code(collection, course_code, limit) ==
    find_many(collection, course_code, limit)

---------------------------------------------------------------------------
(* GeminiService: the LLM call *)

\* What self.model.generate_content(prompt) can give:
\*   "error"      the call raises
\*   "text"       a response with a text attribute (None or a string)
\*   "candidate"  a response without it, text in candidates[0].content.parts[0]
\*   "unexpected" a response with neither
Reply(kind, text) == [kind |-> kind, text |-> text]

\* _sync_generate: the text of the reply (Optional[str]) or an exception
_sync_generate(reply) ==
    CASE reply.kind = "error" -> [ok |-> FALSE, text |-> None, exc |-> ProviderError]
      [] reply.kind = "text" -> [ok |-> TRUE, text |-> reply.text, exc |-> NoExc]
      [] reply.kind = "candidate" -> [ok |-> TRUE, text |-> reply.text, exc |-> NoExc]
      [] OTHER -> [ok |-> FALSE, text |-> None, exc |-> UnexpectedFormat]

\* variant of IsEmptyText: the text is not stripped before the test
IsEmptyTextUnstripped(response_text) ==
    \/ response_text = None
    \/ response_text[1] = ""

\* not response_text or not response_text.strip()
IsEmptyText(response_text) ==
    \/ response_text = None
    \/ response_text[1] = ""
    \/ Strip(Chars(response_text[1])) = <<>>

\* except Exception as e: logger.error(...); raise     (in _generate_text)
GenerateTextExcept(e) == Raise(e)

_generate_text(reply) ==
    LET got == _sync_generate(reply)
    IN IF ~got.ok THEN GenerateTextExcept(got.exc)
       ELSE IF IsEmptyText(got.text) THEN GenerateTextExcept(EmptyResponse)
       ELSE Return(Str(Strip(Chars(got.text[1]))))

\* variant of ClassifyExcept: the error is swallowed, no code is relevant
ClassifyExceptSwallow(e) == ReturnList(<<>>)

\* except Exception as e: logger.error(...); raise     (in classify_relevant_courses)
ClassifyExcept(e) == RaiseList(e)

\* the outcomes a call of classify_relevant_courses can have for a reply
classify_relevant_courses(reply, available_courses) ==
    LET got == _generate_text(reply)
    IN IF got.ok
       THEN {ReturnList(siglas) : siglas \in _extract_siglas(got.val, available_courses)}
       ELSE {ClassifyExcept(got.exc)}

\* except Exception as e: logger.error(...); raise     (in generate_response)
GenerateResponseExcept(e) == Raise(e)

generate_response(reply) ==
    LET got == _generate_text(reply)
    IN IF got.ok
       THEN Return(Str(Strip(Chars(got.val))))
       ELSE GenerateResponseExcept(got.exc)

---------------------------------------------------------------------------
(* Inputs of a run *)

Message(role, content) == [role |-> role, content |-> content]

Conversations == {
    <<Message("user", "What is the workload for Optimizacion?")>>,
    <<Message("user", "Que cursos de optimizacion hay?"),
      Message("assistant", "Hay varios cursos."),
      Message("user", "Cual tiene mejor rating?")>> }

\* request.messages of the requests the route gets
Requests == Conversations \cup {
    <<>>,
    <<Message("user", "Hola"), Message("assistant", "Hola, en que te ayudo?")>>,
    <<Message("system", "Eres un asistente.")>> }

\* raw texts of the LLM in the classification stage
ClassifyTexts == {
    "", " ", "FAKE999",
    "ICS1113,IIC2233",
    "ICS1113, FAKE999",
    "XYZ0000,FAKE999",
    "The relevant course is ICS1113 based on the question",
    "fis1523,iiq1003,mat1620\n" }

\* raw texts of the LLM in the generation stage
GenerateTexts == {
    "", " \n", "No tengo esa informacion especifica disponible",
    "  ICS1113 tiene carga intensa.\n" }

Replies(texts) ==
    {Reply("error", None), Reply("unexpected", None), Reply("text", None)}
    \cup {Reply("text", Some(t)) : t \in texts}
    \cup {Reply("candidate", Some(t)) : t \in texts}

\* what one lookup can meet: a failing repository, or n matching sections
LookupOutcomes == {-1} \cup (0..MaxRecords)

---------------------------------------------------------------------------
(* History of the calls to the collaborators *)

\* ev: which call was issued or came back; for an LLM call that came back,
\* kind and text are the provider's reply; for a lookup that came back, ok
\* tells whether the repository answered, matched how many sections of the
\* code it holds, docs what it returned
Event(ev, ok, kind, code, matched, docs, text) ==
    [ev |-> ev, ok |-> ok, kind |-> kind, code |-> code, matched |-> matched,
     docs |-> docs, text |-> text]

ClassifyCall == Event("classify_call", TRUE, "", "", 0, <<>>, None)
ClassifyRet(reply) == Event("classify_ret", TRUE, reply.kind, "", 0, <<>>, reply.text)
LookupCall(code) == Event("lookup_call", TRUE, "", code, 0, <<>>, None)
LookupRet(code, outcome, found) ==
    Event("lookup_ret", found.ok, "", code, outcome, found.list, None)
GenerateCall == Event("generate_call", TRUE, "", "", 0, <<>>, None)
GenerateRet(reply) == Event("generate_ret", TRUE, reply.kind, "", 0, <<>>, reply.text)

---------------------------------------------------------------------------
(* ChatService.process_chat, one step per await *)

\* variant of ProcessChatExcept: raise PipelineError(...) from e
ProcessChatExceptWrap(e) ==
    Raise([type |-> "PipelineError", msg |-> e.msg, cause |-> e.type])

\* except Exception as e: logger.error(...); raise     (in process_chat)
ProcessChatExcept(e) == Raise(e)

\* an answer of the route: a ChatResponse (200) or an HTTPException
HTTPException(status_code, detail) ==
    [status_code |-> status_code, detail |-> detail, response |-> None]

ChatResponse(text) == [status_code |-> 200, detail |-> "", response |-> Some(text)]

NoAnswer == [status_code |-> 0, detail |-> "", response |-> None]

\* variant of ValidateMessages: the role of the last message is not looked at
ValidateMessagesNonEmpty(msgs) ==
    IF msgs = <<>>
    THEN [ok |-> FALSE,
          exc |-> HTTPException(400, "Debe proporcionar al menos un mensaje en la conversacion")]
    ELSE [ok |-> TRUE, exc |-> NoAnswer]

\* the two validations of the route
ValidateMessages(msgs) ==
    IF msgs = <<>>
    THEN [ok |-> FALSE,
          exc |-> HTTPException(400, "Debe proporcionar al menos un mensaje en la conversacion")]
    ELSE IF msgs[Len(msgs)].role # "user"
    THEN [ok |-> FALSE,
          exc |-> HTTPException(400, "El ultimo mensaje debe ser del usuario")]
    ELSE [ok |-> TRUE, exc |-> NoAnswer]

\* messages_dict
MessagesDict(msgs) ==
    [i \in DOMAIN msgs |-> [role |-> msgs[i].role, content |-> msgs[i].content]]

\* variant of ChatExceptHTTP: the HTTPException falls to `except Exception`
ChatExceptHTTPAs500(e) ==
    HTTPException(500, "Error al procesar el chat: " \o e.detail)

\* except HTTPException: raise
ChatExceptHTTP(e) == e

\* except Exception as e: raise HTTPException(status_code=500, ...)
ChatExcept(e) == HTTPException(500, "Error al procesar el chat: " \o e.msg)

\* the route after `await chat_service.process_chat(messages_dict)`
ChatReturn(out) ==
    IF out.ok THEN ChatResponse(out.val) ELSE ChatExcept(out.exc)

\* process_chat ends: return {"response": ...} or the exception leaves it;
\* the route answers
Finish(out) ==
    /\ pc' = IF out.ok THEN "done" ELSE "failed"
    /\ response' = IF out.ok THEN Some(out.val) ELSE None
    /\ raised' = out.exc
    /\ http' = ChatReturn(out)

\* variant of NoContext: the short-circuit on an empty context is missing
NoContextNever(context) == FALSE

\* `if not courses_context`
NoContext(context) == context = <<>>

\* `if relevant_siglas`
HasSiglas(siglas) == siglas # <<>>

\* variant of HasNextSigla: the loop is left after its first iteration
HasNextSiglaNever(i, siglas) == FALSE

\* the for loop has a next sigla after position i
HasNextSigla(i, siglas) == i < Len(siglas)

\* variant of Extend: the new records are put in front of the context
ExtendFront(context, courses) == courses \o context

\* courses_context.extend(courses)
Extend(context, courses) == context \o courses

\* variant of LookupExcept: the records collected so far are dropped
LookupExceptReset(context, e) == [ok |-> TRUE, context |-> <<>>, exc |-> NoExc]

\* variant of LookupExcept: the error of one lookup leaves the loop
LookupExceptRaise(context, e) == [ok |-> FALSE, context |-> context, exc |-> e]

\* except Exception as e: logger.warning(...); continue    (in the for loop)
LookupExcept(context, e) == [ok |-> TRUE, context |-> context, exc |-> NoExc]

\* await get_courses_by_course_code(sigla, limit=5) against a repository that
\* fails (outcome -1) or holds `outcome` sections of the code
Lookup(sigla, outcome) ==
    IF outcome = -1
    THEN RaiseList(RepositoryError)
    ELSE ReturnList(get_courses_by_course_code(Collection(sigla, outcome),
                                               sigla, LookupLimit))

\* one iteration of the for loop, given what the lookup gave
LoopBody(context, found) ==
    IF found.ok
    THEN [ok |-> TRUE, context |-> Extend(context, found.list), exc |-> NoExc]
    ELSE LookupExcept(context, found.exc)

\* Paso 3 up to its await: the fixed answer, or the generation call is issued
AfterRetrieval(context, lg) ==
    /\ courses_context' = context
    /\ IF NoContext(context)
       THEN /\ Finish(Return(Fallback))
            /\ log' = lg
       ELSE /\ pc' = "generate_llm"
            /\ log' = Append(lg, GenerateCall)
            /\ UNCHANGED <<response, raised, http>>

\* the /chat route refuses the request: process_chat is not called
ChatReject ==
    /\ pc = "idle"
    /\ \E m \in Requests :
          /\ ~ValidateMessages(m).ok
          /\ request' = m
          /\ http' = ChatExceptHTTP(ValidateMessages(m).exc)
    /\ pc' = "rejected"
    /\ UNCHANGED <<messages, relevant_siglas, idx, courses_context, response,
                   raised, log>>
    /\ UNCHANGED <<exvars, mvars, sidevars>>

\* the /chat route calls process_chat; it runs to the classification call
ProcessChat ==
    /\ pc = "idle"
    /\ \E m \in Requests :
          /\ ValidateMessages(m).ok
          /\ request' = m
          /\ messages' = MessagesDict(m)
    /\ pc' = "classify_llm"
    /\ log' = Append(log, ClassifyCall)
    /\ UNCHANGED <<relevant_siglas, idx, courses_context, response, raised, http>>
    /\ UNCHANGED <<exvars, mvars, sidevars>>

\* the classification call returns; process_chat runs to its next await
ClassifyReturn ==
    /\ pc = "classify_llm"
    /\ \E reply \in Replies(ClassifyTexts) :
       \E out \in classify_relevant_courses(reply, AVAILABLE_COURSES) :
          LET lg == Append(log, ClassifyRet(reply))
          IN IF ~out.ok
             THEN /\ Finish(ProcessChatExcept(out.exc))
                  /\ log' = lg
                  /\ UNCHANGED <<relevant_siglas, idx, courses_context>>
             ELSE /\ relevant_siglas' = out.list
                  /\ IF HasSiglas(out.list)
                     THEN /\ pc' = "lookup"
                          /\ idx' = 1
                          /\ log' = Append(lg, LookupCall(out.list[1]))
                          /\ UNCHANGED <<courses_context, response, raised, http>>
                     ELSE /\ AfterRetrieval(<<>>, lg)
                          /\ UNCHANGED idx
    /\ UNCHANGED <<request, messages>>
    /\ UNCHANGED <<exvars, mvars, sidevars>>

\* the lookup of relevant_siglas[idx] returns or raises
LookupReturn ==
    /\ pc = "lookup"
    /\ \E outcome \in LookupOutcomes :
          LET sigla == relevant_siglas[idx]
              found == Lookup(sigla, outcome)
              body == LoopBody(courses_context, found)
              lg == Append(log, LookupRet(sigla, outcome, found))
          IN IF ~body.ok
             THEN /\ Finish(ProcessChatExcept(body.exc))
                  /\ log' = lg
                  /\ UNCHANGED <<idx, courses_context>>
             ELSE IF HasNextSigla(idx, relevant_siglas)
             THEN /\ idx' = idx + 1
                  /\ courses_context' = body.context
                  /\ log' = Append(lg, LookupCall(relevant_siglas[idx + 1]))
                  /\ UNCHANGED <<pc, response, raised, http>>
             ELSE /\ AfterRetrieval(body.context, lg)
                  /\ UNCHANGED idx
    /\ UNCHANGED <<request, messages, relevant_siglas>>
    /\ UNCHANGED <<exvars, mvars, sidevars>>

\* the generation call returns; process_chat ends
GenerateReturn ==
    /\ pc = "generate_llm"
    /\ \E reply \in Replies(GenerateTexts) :
          LET out == generate_response(reply)
          IN /\ Finish(IF out.ok THEN out ELSE ProcessChatExcept(out.exc))
             /\ log' = Append(log, GenerateRet(reply))
    /\ UNCHANGED <<request, messages, relevant_siglas, idx, courses_context>>
    /\ UNCHANGED <<exvars, mvars, sidevars>>

\* the concurrent requests
Tasks == 1..NumRuns

\* the places per-request data can be kept: the frame of the process_chat
\* call of run r (cell r), or the attributes of the one chat_service (cell 0)
Cells == {0} \cup Tasks

\* the locals of a process_chat call before it starts
EmptyLocals ==
    [messages |-> <<>>, relevant_siglas |-> <<>>, idx |-> 0,
     courses_context |-> <<>>, response |-> None, raised |-> NoExc]

IdleMulti ==
    /\ m_request = [r \in Tasks |-> <<>>]
    /\ m_pc = [r \in Tasks |-> "idle"]
    /\ m_frames = [c \in Cells |-> EmptyLocals]
    /\ m_log = [r \in Tasks |-> <<>>]
    /\ m_loop = 0

\* no call of generate_response yet
NoPrompt == [courses_context_text |-> "", last_user_message |-> ""]

IdleFormat ==
    /\ f_pc = "off"
    /\ f_conversation = <<>>
    /\ f_courses = <<>>
    /\ f_prompt = NoPrompt
    /\ f_out = Return("")

\* settings of a configured deployment
Settings(url, db_name) == [MONGODB_URL |-> url, MONGODB_DB_NAME |-> db_name]

\* how a call to connect_to_mongo, close_mongo_connection or get_database
\* ended: connected is is_connected() when it was called, db what
\* get_database returned
Ending(op, ok, connected, db) ==
    [op |-> op, ok |-> ok, connected |-> connected, db |-> db]

\* mongodb = MongoDB(): no client, no database
NoConnection ==
    /\ d_pc = "idle"
    /\ d_client = None
    /\ d_database = None
    /\ d_last = Ending("none", TRUE, FALSE, None)
    /\ d_calls = 0

IdleMongo ==
    /\ NoConnection
    /\ d_settings = Settings("mongodb://localhost", "hackathon")

\* the query parameters of a request to /search; a parameter that is not
\* supplied is None
Query(name, code, professor, nrc, rating, workload, difficulty, limit) ==
    [course_name |-> name, course_code |-> code,
     professor_name |-> professor, nrc |-> nrc,
     min_professor_rating |-> rating,
     workload_label |-> workload, difficulty_level |-> difficulty,
     limit |-> limit]

\* an answer of /search: the status and, for a CourseListResponse, its count
SearchAnswer(status_code, count) == [status_code |-> status_code, count |-> count]

IdleSearch ==
    /\ s_pc = "off"
    /\ s_query = Query(None, None, None, None, None, None, None, 50)
    /\ s_matching = 0
    /\ s_answer = SearchAnswer(0, 0)

IdleSide ==
    /\ IdleFormat
    /\ IdleMongo
    /\ IdleSearch

IdleRun ==
    /\ request = <<>>
    /\ http = NoAnswer
    /\ pc = "idle"
    /\ messages = <<>>
    /\ relevant_siglas = <<>>
    /\ idx = 0
    /\ courses_context = <<>>
    /\ response = None
    /\ raised = NoExc
    /\ log = <<>>

Init ==
    /\ IdleRun
    /\ IdleMulti
    /\ IdleSide
    /\ ex_pc = "off"
    /\ ex_response = ""
    /\ ex_courses = <<>>
    /\ ex_comma = <<>>
    /\ ex_result = <<>>

Next ==
    \/ ChatReject
    \/ ProcessChat
    \/ ClassifyReturn
    \/ LookupReturn
    \/ GenerateReturn

Spec == Init /\ [][Next]_vars

---------------------------------------------------------------------------
(* SpecExtract: _extract_siglas on every bounded input *)

ExtractChars == {"A", "B", "a", ",", ".", " ", "-"}

ExtractTexts ==
    {Str(cs) : cs \in UNION {[1..n -> ExtractChars] : n \in 0..MaxLen}}

Vocabularies == {
    <<>>,
    << <<"Sin sigla">> >>,
    << <<"Uno", "A">>, <<"Dos", "AB", "B">>, <<"Tres">> >>,
    << <<"Uno", "a">>, <<"Dos", "BA", "A">> >> }

InitExtract ==
    /\ IdleRun
    /\ IdleMulti
    /\ IdleSide
    /\ ex_pc = "input"
    /\ ex_response \in ExtractTexts
    /\ ex_courses \in Vocabularies
    /\ ex_comma = <<>>
    /\ ex_result = <<>>

ExtractCall ==
    /\ ex_pc = "input"
    /\ \E siglas \in _extract_siglas(ex_response, ex_courses) :
          ex_result' = siglas
    /\ ex_comma' = FoundByCommas(ex_response, ex_courses)
    /\ ex_pc' = "returned"
    /\ UNCHANGED <<ex_response, ex_courses>>
    /\ UNCHANGED <<runvars, mvars, sidevars>>

NextExtract == ExtractCall

SpecExtract == InitExtract /\ [][NextExtract]_vars

---------------------------------------------------------------------------
(* SpecMulti: NumRuns requests to POST /chat interleaved on one event loop *)

\* variant of Frame: the per-request data are attributes of the one
\* chat_service object
FrameShared(r) == 0

\* where run r keeps messages, relevant_siglas, courses_context and result:
\* they are locals of its own process_chat call
Frame(r) == r

\* variant of LoopHolder: the provider is called on the loop thread
LoopHolderSync(r) == r

\* who holds the loop thread while the LLM call of run r is in flight:
\* nobody, asyncio.to_thread runs _sync_generate in a worker thread
LoopHolder(r) == 0

\* what the collaborators answer in SpecMulti
MultiClassifyReplies == {
    Reply("error", None),
    Reply("text", Some("ICS1113,IIC2233")),
    Reply("candidate", Some("FAKE999")) }

MultiGenerateReplies == {
    Reply("text", None),
    Reply("text", Some("  ICS1113 tiene carga intensa.\n")) }

MultiLookupOutcomes == {-1, 2}

\* process_chat ends in the frame L with the outcome out
EndFrame(L, out) ==
    [L EXCEPT !.response = IF out.ok THEN Some(out.val) ELSE None,
              !.raised = out.exc]

\* the run stops with the outcome out
Ended(L, out, lg) ==
    [pc |-> IF out.ok THEN "done" ELSE "failed", loc |-> EndFrame(L, out),
     log |-> lg, llm |-> FALSE]

\* Paso 3 up to its await, in the frame L
AfterRetrievalIn(L, context, lg) ==
    LET L1 == [L EXCEPT !.courses_context = context]
    IN IF NoContext(context)
       THEN Ended(L1, Return(Fallback), lg)
       ELSE [pc |-> "generate_llm", loc |-> L1, log |-> Append(lg, GenerateCall),
             llm |-> TRUE]

\* the step of run r is over: its coroutine is suspended again or has ended
Suspend(r, res) ==
    /\ m_pc' = [m_pc EXCEPT ![r] = res.pc]
    /\ m_frames' = [m_frames EXCEPT ![Frame(r)] = res.loc]
    /\ m_log' = [m_log EXCEPT ![r] = res.log]
    /\ m_loop' = IF res.llm THEN LoopHolder(r) ELSE 0

\* the loop thread can run the coroutine of run r
LoopRuns(r) == m_loop \in {0, r}

\* the route accepts the request of run r and process_chat runs to the
\* classification call
StartRun(r) ==
    /\ m_pc[r] = "idle"
    /\ LoopRuns(r)
    /\ \E m \in Requests :
          /\ ValidateMessages(m).ok
          /\ m_request' = [m_request EXCEPT ![r] = m]
          /\ Suspend(r, [pc |-> "classify_llm",
                         loc |-> [EmptyLocals EXCEPT !.messages = MessagesDict(m)],
                         log |-> Append(m_log[r], ClassifyCall),
                         llm |-> TRUE])
    /\ UNCHANGED <<exvars, runvars, sidevars>>

\* the classification call of run r returns
ClassifyReturnRun(r) ==
    /\ m_pc[r] = "classify_llm"
    /\ LoopRuns(r)
    /\ \E reply \in MultiClassifyReplies :
       \E out \in classify_relevant_courses(reply, AVAILABLE_COURSES) :
          LET L == m_frames[Frame(r)]
              lg == Append(m_log[r], ClassifyRet(reply))
              L1 == [L EXCEPT !.relevant_siglas = out.list]
          IN Suspend(r,
                IF ~out.ok THEN Ended(L, ProcessChatExcept(out.exc), lg)
                ELSE IF HasSiglas(out.list)
                THEN [pc |-> "lookup", loc |-> [L1 EXCEPT !.idx = 1],
                      log |-> Append(lg, LookupCall(out.list[1])), llm |-> FALSE]
                ELSE AfterRetrievalIn(L1, <<>>, lg))
    /\ UNCHANGED m_request
    /\ UNCHANGED <<exvars, runvars, sidevars>>

\* the pending lookup of run r returns or raises
LookupReturnRun(r) ==
    /\ m_pc[r] = "lookup"
    /\ LoopRuns(r)
    /\ \E outcome \in MultiLookupOutcomes :
          LET L == m_frames[Frame(r)]
              sigla == L.relevant_siglas[L.idx]
              found == Lookup(sigla, outcome)
              body == LoopBody(L.courses_context, found)
              lg == Append(m_log[r], LookupRet(sigla, outcome, found))
          IN Suspend(r,
                IF ~body.ok THEN Ended(L, ProcessChatExcept(body.exc), lg)
                ELSE IF HasNextSigla(L.idx, L.relevant_siglas)
                THEN [pc |-> "lookup",
                      loc |-> [L EXCEPT !.idx = L.idx + 1,
                                        !.courses_context = body.context],
                      log |-> Append(lg, LookupCall(L.relevant_siglas[L.idx + 1])),
                      llm |-> FALSE]
                ELSE AfterRetrievalIn(L, body.context, lg))
    /\ UNCHANGED m_request
    /\ UNCHANGED <<exvars, runvars, sidevars>>

\* the generation call of run r returns
GenerateReturnRun(r) ==
    /\ m_pc[r] = "generate_llm"
    /\ LoopRuns(r)
    /\ \E reply \in MultiGenerateReplies :
          LET out == generate_response(reply)
          IN Suspend(r, Ended(m_frames[Frame(r)],
                              IF out.ok THEN out ELSE ProcessChatExcept(out.exc),
                              Append(m_log[r], GenerateRet(reply))))
    /\ UNCHANGED m_request
    /\ UNCHANGED <<exvars, runvars, sidevars>>

\* one step of the coroutine of run r
RunStep(r) ==
    \/ StartRun(r)
    \/ ClassifyReturnRun(r)
    \/ LookupReturnRun(r)
    \/ GenerateReturnRun(r)

InitMulti == Init

NextMulti == \E r \in Tasks : RunStep(r)

SpecMulti == InitMulti /\ [][NextMulti]_vars

---------------------------------------------------------------------------
(* SpecFormat: GeminiService.generate_response and the prompt it builds *)

\* str.join
RECURSIVE JoinStr(_, _)
JoinStr(sep, lst) ==
    IF lst = <<>> THEN ""
    ELSE IF Len(lst) = 1 THEN lst[1]
    ELSE lst[1] \o sep \o JoinStr(sep, Tail(lst))

\* str() of a float given in tenths (45 is 4.5, 0 is 0.0)
FloatStr(tenths) == ToString(tenths \div 10) \o "." \o ToString(tenths % 10)

\* truth value of an optional string: None and "" are false
TruthyStr(v) == v # None /\ v[1] # ""

\* truth value of an optional list: None and [] are false
TruthyList(v) == v # None /\ v[1] # <<>>

\* truth value of an optional number: None and 0 are false
TruthyNumber(v) == v # None /\ v[1] # 0

\* variant of FirstThree: every element is kept
FirstAll(lst) == lst

\* lst[:3]
FirstThree(lst) == SubSeq(lst, 1, Min(3, Len(lst)))

\* the part of course_info for professor_ratings
RatingPart(course) ==
    IF TruthyList(course.professor_ratings)
    THEN LET ratings == course.professor_ratings[1]
         IN IF TruthyNumber(ratings[1].overall)
            THEN " - Rating: " \o FloatStr(ratings[1].overall[1])
            ELSE ""
    ELSE ""

\* the part of course_info for an optional string under a label
LabelPart(label, v) == IF TruthyStr(v) THEN label \o v[1] ELSE ""

\* the part of course_info for the slots
SlotsPart(course) ==
    IF course.available_slots # None /\ course.total_slots # None
    THEN " - Cupos: " \o ToString(course.available_slots[1]) \o "/"
             \o ToString(course.total_slots[1])
    ELSE ""

\* the part of course_info for pros or cons
ListPart(label, v) ==
    IF TruthyList(v) THEN label \o JoinStr(", ", FirstThree(v[1])) ELSE ""

\* course_info of one record
CourseInfo(course) ==
    course.course_name \o " (" \o course.course_code \o ")"
    \o " - Profesor: " \o course.professor
    \o RatingPart(course)
    \o LabelPart(" - Carga: ", course.workload)
    \o LabelPart(" - Dificultad: ", course.difficulty_level)
    \o LabelPart(" - Campus: ", course.campus)
    \o SlotsPart(course)
    \o LabelPart("\n  Resumen: ", course.overall_summary)
    \o ListPart("\n  Pros: ", course.pros)
    \o ListPart("\n  Contras: ", course.cons)

_format_courses_context(courses) ==
    IF courses = <<>> THEN "No hay informacion de cursos disponible."
    ELSE JoinStr("\n\n", [i \in DOMAIN courses |-> CourseInfo(courses[i])])

\* variant of last_user_message: the content of the last message, whoever
\* wrote it
LastMessageContent(conversation) ==
    IF conversation = <<>> THEN ""
    ELSE conversation[Len(conversation)].content

\* for msg in reversed(conversation), from position i down
RECURSIVE ScanReversed(_, _)
ScanReversed(conversation, i) ==
    IF i = 0 THEN ""
    ELSE IF conversation[i].role = "user" THEN conversation[i].content
    ELSE ScanReversed(conversation, i - 1)

\* the local last_user_message of generate_response
last_user_message(conversation) == ScanReversed(conversation, Len(conversation))

\* the values generate_response puts into its prompt
Prompt(conversation, courses) ==
    [courses_context_text |-> _format_courses_context(courses),
     last_user_message |-> last_user_message(conversation)]

\* a course document; ratings, workload, ... are None when the document has
\* no such field or holds null
Course(ratings, workload, difficulty, campus, available, total, summary, pros, cons) ==
    [course_name |-> "Optimizacion", course_code |-> "ICS1113",
     professor |-> "Perez", professor_ratings |-> ratings,
     workload |-> workload, difficulty_level |-> difficulty, campus |-> campus,
     available_slots |-> available, total_slots |-> total,
     overall_summary |-> summary, pros |-> pros, cons |-> cons]

Rating(overall) == [name |-> "Perez", overall |-> overall]

\* "pro1", "pro2", ...
Items(prefix, n) == [i \in 1..n |-> prefix \o ToString(i)]

FormatRatings == {
    None, Some(<<>>),
    Some(<<Rating(None)>>), Some(<<Rating(Some(0))>>), Some(<<Rating(Some(45))>>),
    Some(<<Rating(None), Rating(Some(38))>>) }

FormatCourses ==
    {Course(r, w, d, c, a, t, s, p, q) :
        r \in FormatRatings,
        w \in {None, Some(""), Some("alta")},
        d \in {None, Some("media")},
        c \in {None, Some("San Joaquin")},
        a \in {None, Some(0), Some(12)},
        t \in {None, Some(0)},
        s \in {None, Some("Buen curso")},
        p \in {None} \cup {Some(Items("pro", n)) : n \in 0..MaxItems},
        q \in {None, Some(Items("con", 2)), Some(Items("con", MaxItems))}}

\* the courses_context lists given to generate_response
FormatContexts ==
    {<<>>} \cup {<<c>> : c \in FormatCourses}
    \cup {<<Course(None, None, None, None, None, None, None, None, None),
            Course(Some(<<Rating(Some(45))>>), Some("alta"), None, None,
                   Some(3), Some(40), None, Some(Items("pro", 1)), None)>>}

FormatMessages == {
    Message("user", "Que cursos hay?"), Message("user", "Y cual es mejor?"),
    Message("assistant", "Hay varios."), Message("system", "Eres un asistente.") }

\* the conversations given to generate_response
FormatConversations ==
    UNION {[1..n -> FormatMessages] : n \in 0..MaxMsgs}

InitFormat ==
    /\ IdleRun
    /\ IdleMulti
    /\ ex_pc = "off"
    /\ ex_response = ""
    /\ ex_courses = <<>>
    /\ ex_comma = <<>>
    /\ ex_result = <<>>
    /\ IdleMongo
    /\ IdleSearch
    /\ f_pc = "input"
    /\ \/ /\ f_conversation \in FormatConversations
          /\ f_courses = <<>>
       \/ /\ f_conversation = <<Message("user", "Que cursos hay?")>>
          /\ f_courses \in FormatContexts
    /\ f_prompt = NoPrompt
    /\ f_out = Return("")

\* generate_response runs to its await: the prompt is built
BuildPrompt ==
    /\ f_pc = "input"
    /\ f_prompt' = Prompt(f_conversation, f_courses)
    /\ f_pc' = "generate_llm"
    /\ UNCHANGED <<f_conversation, f_courses, f_out>>
    /\ UNCHANGED <<exvars, runvars, mvars, dbvars, svars>>

\* the LLM call returns; generate_response returns or raises
GenerateTextReturn ==
    /\ f_pc = "generate_llm"
    /\ \E reply \in MultiGenerateReplies : f_out' = generate_response(reply)
    /\ f_pc' = "returned"
    /\ UNCHANGED <<f_conversation, f_courses, f_prompt>>
    /\ UNCHANGED <<exvars, runvars, mvars, dbvars, svars>>

NextFormat ==
    \/ BuildPrompt
    \/ GenerateTextReturn

SpecFormat == InitFormat /\ [][NextFormat]_vars

---------------------------------------------------------------------------
(* SpecMongo: connect_to_mongo, close_mongo_connection, get_database *)

\* is_connected()
is_connected(client, database) == client # None /\ database # None

\* get_database(): the handle, or RuntimeError
get_database(database) ==
    IF database = None THEN [ok |-> FALSE, db |-> None]
    ELSE [ok |-> TRUE, db |-> database]

\* mongodb.client after the except block of connect_to_mongo
ClientAfterExcept(client) == IF client # None THEN None ELSE client

\* connect_to_mongo raises: its except block runs, mongodb.database is
\* left as it is
ConnectRaises(connected) ==
    /\ d_client' = ClientAfterExcept(d_client)
    /\ d_pc' = "idle"
    /\ d_last' = Ending("connect", FALSE, connected, None)
    /\ UNCHANGED d_database

\* connect_to_mongo is called and runs to the ping, or raises before it
ConnectToMongo ==
    /\ d_pc = "idle"
    /\ d_calls < MaxCalls
    /\ d_calls' = d_calls + 1
    /\ IF d_settings.MONGODB_URL = "" \/ d_settings.MONGODB_DB_NAME = ""
       THEN ConnectRaises(is_connected(d_client, d_database))
       ELSE \E created \in BOOLEAN :
               IF created
               THEN /\ d_client' = Some(d_calls + 1)
                    /\ d_database' = Some(d_calls + 1)
                    /\ d_pc' = "ping"
                    /\ UNCHANGED d_last
               ELSE ConnectRaises(is_connected(d_client, d_database))
    /\ UNCHANGED d_settings
    /\ UNCHANGED <<exvars, runvars, mvars, fvars, svars>>

\* the ping returns or raises
PingReturn ==
    /\ d_pc = "ping"
    /\ \E answered \in BOOLEAN :
          IF answered
          THEN /\ d_pc' = "server_info"
               /\ UNCHANGED <<d_client, d_database, d_last>>
          ELSE ConnectRaises(d_last.connected)
    /\ UNCHANGED <<d_settings, d_calls>>
    /\ UNCHANGED <<exvars, runvars, mvars, fvars, svars>>

\* server_info() returns or raises; connect_to_mongo ends
ServerInfoReturn ==
    /\ d_pc = "server_info"
    /\ \E answered \in BOOLEAN :
          IF answered
          THEN /\ d_pc' = "idle"
               /\ d_last' = Ending("connect", TRUE, d_last.connected, None)
               /\ UNCHANGED <<d_client, d_database>>
          ELSE ConnectRaises(d_last.connected)
    /\ UNCHANGED <<d_settings, d_calls>>
    /\ UNCHANGED <<exvars, runvars, mvars, fvars, svars>>

\* close_mongo_connection()
CloseMongoConnection ==
    /\ d_pc = "idle"
    /\ d_calls < MaxCalls
    /\ d_calls' = d_calls + 1
    /\ d_last' = Ending("close", TRUE, is_connected(d_client, d_database), None)
    /\ IF d_client # None
       THEN \E closed \in BOOLEAN :
               IF closed
               THEN /\ d_client' = None
                    /\ d_database' = None
               ELSE UNCHANGED <<d_client, d_database>>
       ELSE UNCHANGED <<d_client, d_database>>
    /\ UNCHANGED <<d_pc, d_settings>>
    /\ UNCHANGED <<exvars, runvars, mvars, fvars, svars>>

\* get_database() is called
GetDatabase ==
    /\ d_pc = "idle"
    /\ d_calls < MaxCalls
    /\ d_calls' = d_calls + 1
    /\ LET got == get_database(d_database)
       IN d_last' = Ending("get", got.ok, is_connected(d_client, d_database), got.db)
    /\ UNCHANGED <<d_pc, d_settings, d_client, d_database>>
    /\ UNCHANGED <<exvars, runvars, mvars, fvars, svars>>

InitMongo ==
    /\ IdleRun
    /\ IdleMulti
    /\ IdleFormat
    /\ IdleSearch
    /\ ex_pc = "off"
    /\ ex_response = ""
    /\ ex_courses = <<>>
    /\ ex_comma = <<>>
    /\ ex_result = <<>>
    /\ NoConnection
    /\ d_settings \in {Settings(url, db_name) :
                          url \in {"", "mongodb://localhost"},
                          db_name \in {"", "hackathon"}}

NextMongo ==
    \/ ConnectToMongo
    \/ PingReturn
    \/ ServerInfoReturn
    \/ CloseMongoConnection
    \/ GetDatabase

SpecMongo == InitMongo /\ [][NextMongo]_vars

---------------------------------------------------------------------------
(* SpecSearch: the route GET /search down to find_many *)

\* any([course_name, course_code, professor_name, nrc, min_professor_rating,
\*      workload_label, difficulty_level])
AnyCriterion(q) ==
    \/ TruthyStr(q.course_name)
    \/ TruthyStr(q.course_code)
    \/ TruthyStr(q.professor_name)
    \/ TruthyStr(q.nrc)
    \/ TruthyNumber(q.min_professor_rating)
    \/ TruthyStr(q.workload_label)
    \/ TruthyStr(q.difficulty_level)

\* db search_courses: find_many over the documents that match filter_query
db_search_courses(matching, limit) ==
    find_many(Collection("MATCH000", matching), "MATCH000", limit)

SearchQueries ==
    {Query(n, c, p, r, m, w, d, l) :
        n \in {None, Some(""), Some("Optimizacion")},
        c \in {None, Some("ICS1113")},
        p \in {None, Some("Perez")},
        r \in {None, Some("12345")},
        m \in {None, Some(0), Some(40)},
        w \in {None, Some("alta")},
        d \in {None, Some("media")},
        l \in {0, 1, 3, 50}}

InitSearch ==
    /\ IdleRun
    /\ IdleMulti
    /\ IdleFormat
    /\ IdleMongo
    /\ ex_pc = "off"
    /\ ex_response = ""
    /\ ex_courses = <<>>
    /\ ex_comma = <<>>
    /\ ex_result = <<>>
    /\ s_pc = "input"
    /\ s_query \in SearchQueries
    /\ s_matching \in 0..MaxRecords
    /\ s_answer = SearchAnswer(0, 0)

\* the route validates the request and awaits the search, or answers 400
SearchCourses ==
    /\ s_pc = "input"
    /\ IF ~AnyCriterion(s_query)
       THEN /\ s_answer' = SearchAnswer(400, 0)
            /\ s_pc' = "answered"
       ELSE /\ s_pc' = "db"
            /\ UNCHANGED s_answer
    /\ UNCHANGED <<s_query, s_matching>>
    /\ UNCHANGED <<exvars, runvars, mvars, fvars, dbvars>>

\* the search returns or raises; the route answers
SearchReturn ==
    /\ s_pc = "db"
    /\ \E answered \in BOOLEAN :
          IF answered
          THEN s_answer' =
                  SearchAnswer(200, Len(db_search_courses(s_matching, s_query.limit)))
          ELSE s_answer' = SearchAnswer(500, 0)
    /\ s_pc' = "answered"
    /\ UNCHANGED <<s_query, s_matching>>
    /\ UNCHANGED <<exvars, runvars, mvars, fvars, dbvars>>

NextSearch ==
    \/ SearchCourses
    \/ SearchReturn

SpecSearch == InitSearch /\ [][NextSearch]_vars

---------------------------------------------------------------------------
(* Reading the history *)

Events(ev) == {i \in DOMAIN log : log[i].ev = ev}

Called(ev) == Events(ev) # {}

\* the records of the successful lookups, in the order the lookups returned
RECURSIVE ReturnedDocs(_)
ReturnedDocs(lg) ==
    IF lg = <<>> THEN <<>>
    ELSE LET e == lg[Len(lg)]
             rest == ReturnedDocs(SubSeq(lg, 1, Len(lg) - 1))
         IN IF e.ev = "lookup_ret" /\ e.ok THEN rest \o e.docs ELSE rest

\* the codes of the lookups issued, in order
LookupCodes == [k \in 1..Cardinality(Events("lookup_call")) |->
                   log[CHOOSE i \in Events("lookup_call") :
                           Cardinality({j \in Events("lookup_call") : j <= i}) = k].code]

\* Paso 2 is over: the run is in Paso 3 or ended after it
RetrievalEnded ==
    \/ pc \in {"generate_llm", "done"}
    \/ pc = "failed" /\ Called("generate_call")

\* how many records of the context carry the code
CountOf(code) == Cardinality({i \in DOMAIN courses_context :
                                 courses_context[i].course_code = code})

---------------------------------------------------------------------------
(* Claims *)

\* C1: every code _extract_siglas returns is one of the known codes derived
\* from the vocabulary, whatever the raw text holds.
C1_ClosedVocabulary ==
    ex_pc = "returned" =>
        \A i \in DOMAIN ex_result : ex_result[i] \in KnownCodes(ex_courses)

\* C1 witness: a code was returned for a comma text one of whose pieces is a
\* non-empty word that is no known code.
C1_Witness ==
    /\ ex_pc = "returned"
    /\ ex_result # <<>>
    /\ LET pieces == SplitComma(Upper(Strip(Chars(ex_response))))
       IN \E i \in DOMAIN pieces :
             /\ CleanToken(pieces[i]) # <<>>
             /\ CleanToken(pieces[i]) \notin AllSiglas(ex_courses)

\* C2: a run whose retrieval ended with an empty context answers with the
\* fixed fallback string and never calls generate_response.
C2_FallbackVerbatim ==
    (RetrievalEnded /\ courses_context = <<>>) =>
        /\ pc = "done"
        /\ response = Some(Fallback)
        /\ ~Called("generate_call")

\* C2 witness: lookups were made, the context stayed empty, the run is done.
C2_Witness ==
    /\ pc = "done"
    /\ courses_context = <<>>
    /\ Called("lookup_ret")

\* C3: no lookup error leaves the loop, the context is exactly what the
\* successful lookups returned, and every relevant code is looked up even
\* after a failure.
C3_RetrievalIsolation ==
    /\ pc = "failed" => log[Len(log)].ev \in {"classify_ret", "generate_ret"}
    /\ courses_context = ReturnedDocs(log)
    /\ RetrievalEnded => LookupCodes = relevant_siglas

\* C3 witness: a lookup failed, a later one returned records, retrieval ended.
C3_Witness ==
    /\ RetrievalEnded
    /\ \E i, j \in Events("lookup_ret") :
          /\ i < j
          /\ ~log[i].ok
          /\ log[j].ok
          /\ log[j].docs # <<>>

\* a text the provider should never be taken to have answered with:
\* missing, empty or all whitespace
BlankText(text) ==
    \/ text = None
    \/ \A i \in 1..Len(text[1]) : SubSeq(text[1], i, i) \in {" ", "\t", "\n", "\r"}

\* the LLM call behind a returned-event failed
FailedReply(e) == e.kind \in {"error", "unexpected"} \/ BlankText(e.text)

LLMReturns == Events("classify_ret") \cup Events("generate_ret")

\* the exception the failed LLM call of event e raised
StageError(e) ==
    IF e.kind = "error" THEN ProviderError
    ELSE IF e.kind = "unexpected" THEN UnexpectedFormat
    ELSE EmptyResponse

\* C4 (as claimed): when the raw classification output is the empty string,
\* the run ends with the fallback string, with no code, no lookup and no
\* generation call.
C4_EmptyClassificationFallsBack ==
    \A i \in Events("classify_ret") :
        (log[i].kind \in {"text", "candidate"} /\ log[i].text = Some("")) =>
            /\ pc = "done"
            /\ response = Some(Fallback)
            /\ relevant_siglas = <<>>
            /\ ~Called("lookup_call")
            /\ ~Called("generate_call")

C7_PerCodeCap ==
    \A i \in DOMAIN courses_context :
        CountOf(courses_context[i].course_code) <= 5

\* C7 witness: the repository holds more than 5 sections of a code and the
\* context holds 5 of them.
C7_Witness ==
    \E i \in Events("lookup_ret") :
        /\ log[i].ok
        /\ log[i].matched > 5
        /\ CountOf(log[i].code) = 5

\* C8: no lookup is issued before the classification call has returned, and
\* the generation call is issued only after the lookup of every relevant
\* code has been issued and has returned or failed.
C8_StageOrder ==
    /\ \A i \in Events("lookup_call") :
          \E j \in Events("classify_ret") : j < i
    /\ \A g \in Events("generate_call") :
          /\ \A i \in Events("lookup_call") :
                /\ i < g
                /\ \E k \in Events("lookup_ret") :
                      i < k /\ k < g /\ log[k].code = log[i].code
          /\ \A c \in Range(relevant_siglas) :
                \E k \in Events("lookup_ret") : k < g /\ log[k].code = c

\* C8 witness: the generation call is in flight after two lookups, one of
\* which failed.
C8_Witness ==
    /\ pc = "generate_llm"
    /\ Cardinality(Events("lookup_ret")) >= 2
    /\ \E k \in Events("lookup_ret") : ~log[k].ok

\* C9 (as claimed): the failure process_chat raises is a PipelineError that
\* wraps the error of the stage it came from.
C9_RaisesPipelineError ==
    pc = "failed" =>
        /\ raised.type = "PipelineError"
        /\ raised.cause = StageError(log[Len(log)]).type

\* C9 (amended): the failure process_chat raises is the error of the stage
\* it came from itself, unchanged and unwrapped.
C9_RaisesStageError ==
    pc = "failed" =>
        /\ log[Len(log)].ev \in {"classify_ret", "generate_ret"}
        /\ raised = StageError(log[Len(log)])
        /\ raised.type # "PipelineError"
        /\ raised.cause = ""

\* C9 witness: the generation stage failed on an empty text.
C9_Witness ==
    /\ pc = "failed"
    /\ log[Len(log)].ev = "generate_ret"
    /\ raised = EmptyResponse

\* the lookup of every relevant code has come back, each failed or empty
AllLookupsFailedOrEmpty ==
    /\ Called("classify_ret")
    /\ ~FailedReply(log[CHOOSE i \in Events("classify_ret") : TRUE])
    /\ Cardinality(Events("lookup_ret")) = Len(relevant_siglas)
    /\ \A k \in Events("lookup_ret") : ~log[k].ok \/ log[k].matched = 0

\* C10: when every lookup of the run fails or returns nothing, the run does
\* not fail: it succeeds with the fallback string.
C10_EmptyRetrievalSucceeds ==
    AllLookupsFailedOrEmpty =>
        /\ pc = "done"
        /\ response = Some(Fallback)
        /\ raised = NoExc
        /\ courses_context = <<>>

\* C10 witness: two lookups, one failed and one empty, and the run is done.
C10_Witness ==
    /\ AllLookupsFailedOrEmpty
    /\ pc = "done"
    /\ \E j, k \in Events("lookup_ret") : ~log[j].ok /\ log[k].ok /\ log[k].matched = 0

\* the stripped, upper-cased text _extract_siglas works on
ExText == Upper(Strip(Chars(ex_response)))

\* C11: the list _extract_siglas returns holds no code twice.
C11_NoDuplicates ==
    ex_pc = "returned" =>
        \A i, j \in DOMAIN ex_result : ex_result[i] = ex_result[j] => i = j

\* C11 witness: a code was returned for a text whose comma pass found a
\* code more than once.
C11_Witness ==
    /\ ex_pc = "returned"
    /\ ex_result # <<>>
    /\ LET found == CommaPass(ExText, AllSiglas(ex_courses))
       IN \E i, j \in DOMAIN found : i # j /\ found[i] = found[j]

\* the comma-separated pieces of the text _extract_siglas works on
ExPieces == Range(SplitComma(ExText))

ExHasComma == \E i \in DOMAIN ExText : ExText[i] = ","

\* a piece with the whitespace at its ends and every period and space deleted
CleanedPiece(p) == SelectSeq(Strip(p), LAMBDA c : c \notin {".", " "})

\* a piece with the whitespace and periods around it deleted
TrimmedPiece(p) == StripChars(p, Whitespace \cup {"."})

\* code occurs in text with no letter, digit or underscore next to it
WholeWord(code, text) ==
    \E p \in 1..(Len(text) - Len(code) + 1) :
        /\ SubSeq(text, p, p + Len(code) - 1) = code
        /\ (p = 1 \/ text[p - 1] \notin WordChars)
        /\ (p + Len(code) - 1 = Len(text) \/ text[p + Len(code)] \notin WordChars)

\* the known codes among the cleaned pieces
CleanedKnown == {CleanedPiece(p) : p \in ExPieces} \cap AllSiglas(ex_courses)

\* the known codes that are a whole word of the text
WholeWordKnown == {c \in AllSiglas(ex_courses) : WholeWord(c, ExText)}

\* C12 (as claimed): for a text with commas the result is exactly the set
\* of comma-separated tokens (whitespace and periods around them stripped)
\* that are known codes.
C12_CommaTokensExactly ==
    (ex_pc = "returned" /\ ExHasComma) =>
        Range(ex_result) =
            {Str(c) : c \in {TrimmedPiece(p) : p \in ExPieces}
                            \cap AllSiglas(ex_courses)}

\* C12 (amended): for a text with commas the result is exactly the set of
\* pieces that are known codes once every period and space is deleted from
\* them, and the whole-word scan's result when no piece is.
C12_CleanedTokensExactly ==
    (ex_pc = "returned" /\ ExHasComma) =>
        Range(ex_result) =
            {Str(c) : c \in IF CleanedKnown # {} THEN CleanedKnown
                            ELSE WholeWordKnown}

\* C12 witness: two pieces are known codes and one piece is not.
C12_Witness ==
    /\ ex_pc = "returned"
    /\ ExHasComma
    /\ Cardinality(CleanedKnown) = 2
    /\ Len(ex_result) = 2
    /\ \E p \in ExPieces : CleanedPiece(p) \notin AllSiglas(ex_courses)

\* code occurs somewhere in text
Occurs(code, text) ==
    \E p \in 1..(Len(text) - Len(code) + 1) :
        SubSeq(text, p, p + Len(code) - 1) = code

\* C13: for a non-empty text without comma the result is exactly the set of
\* known codes that occur in the upper-cased text as a whole word.
C13_WholeWordScan ==
    (ex_pc = "returned" /\ ex_response # "" /\ ~ExHasComma) =>
        Range(ex_result) =
            {Str(c) : c \in {k \in AllSiglas(ex_courses) :
                                 WholeWord(k, Upper(Chars(ex_response)))}}

\* C13 witness: a code was returned, and another known code occurs in the
\* text only inside a longer word and was not returned.
C13_Witness ==
    /\ ex_pc = "returned"
    /\ ~ExHasComma
    /\ ex_result # <<>>
    /\ \E k \in AllSiglas(ex_courses) :
          /\ Occurs(k, ExText)
          /\ Str(k) \notin Range(ex_result)

\* C20 (as claimed): a comma-separated token is kept if and only if it is a
\* known code once the whitespace and periods around it are stripped; a
\* token that is a known code only without a character inside it is dropped.
C20_TokenKeptIffTrimmedKnown ==
    (ex_pc = "returned" /\ ExHasComma) =>
        Range(ex_comma) =
            {Str(c) : c \in {TrimmedPiece(p) : p \in ExPieces}
                            \cap AllSiglas(ex_courses)}

\* C20 (amended): a comma-separated token is kept if and only if it is a
\* known code once the whitespace around it and every period and space in
\* it, the inner ones too, are deleted.
C20_TokenKeptIffCleanedKnown ==
    (ex_pc = "returned" /\ ExHasComma) =>
        /\ Range(ex_comma) = {Str(c) : c \in CleanedKnown}
        /\ Len(ex_comma) =
              Cardinality({i \in DOMAIN SplitComma(ExText) :
                  CleanedPiece(SplitComma(ExText)[i]) \in AllSiglas(ex_courses)})

\* C20 witness: a token with a space inside it was kept.
C20_Witness ==
    /\ ex_pc = "returned"
    /\ \E p \in ExPieces :
          /\ \E i \in DOMAIN TrimmedPiece(p) : TrimmedPiece(p)[i] = " "
          /\ Str(CleanedPiece(p)) \in Range(ex_comma)

\* the classification text names no known code: none occurs in it, even
\* with its periods and spaces deleted
NoCodeNamed(text) ==
    LET compact == SelectSeq(Upper(Chars(text)), LAMBDA c : c \notin {".", " "})
    IN \A k \in KnownCodes(AVAILABLE_COURSES) : ~Occurs(Chars(k), compact)

\* the classification came back with a text that is not blank and names no
\* known code
EmptyClassification ==
    \E i \in Events("classify_ret") :
        /\ ~FailedReply(log[i])
        /\ NoCodeNamed(log[i].text[1])

\* C14: when the classifier returns no code for a non-empty text, the run
\* issues no lookup at all and its context is empty.
C14_NoCodesNoLookup ==
    EmptyClassification =>
        /\ relevant_siglas = <<>>
        /\ ~Called("lookup_call")
        /\ ~Called("lookup_ret")
        /\ courses_context = <<>>

\* C14 witness: a run is done after a classification text with commas that
\* names no known code.
C14_Witness ==
    /\ pc = "done"
    /\ EmptyClassification
    /\ \E i \in Events("classify_ret") : Occurs(<<",">>, Chars(log[i].text[1]))

\* the calls to the LLM the run has issued
LLMCalls == Events("classify_call") \cup Events("generate_call")

FirstDocs(code, n) == [i \in 1..n |-> Doc(code, i)]

\* C16: the lookups are issued for the relevant codes in their order, one
\* per code and none for another code, each returns the first (at most 5)
\* records of its code in the repository's order, and the context is the
\* concatenation of what the successful lookups returned, in that order.
C16_ContextInLookupOrder ==
    /\ Len(LookupCodes) <= Len(relevant_siglas)
    /\ \A k \in DOMAIN LookupCodes : LookupCodes[k] = relevant_siglas[k]
    /\ \A j, k \in DOMAIN LookupCodes : LookupCodes[j] = LookupCodes[k] => j = k
    /\ RetrievalEnded => LookupCodes = relevant_siglas
    /\ \A i \in Events("lookup_ret") :
          /\ log[i - 1].ev = "lookup_call"
          /\ log[i - 1].code = log[i].code
          /\ log[i].ok => log[i].docs = FirstDocs(log[i].code, Min(5, log[i].matched))
    /\ courses_context = ReturnedDocs(log)

\* C16 witness: retrieval ended after two lookups of different codes that
\* both returned records.
C16_Witness ==
    /\ RetrievalEnded
    /\ \E i, j \in Events("lookup_ret") :
          /\ i < j
          /\ log[i].code # log[j].code
          /\ log[i].ok /\ log[i].docs # <<>>
          /\ log[j].ok /\ log[j].docs # <<>>

\* the request has no message, or its last message is not the user's
BadRequest == request = <<>> \/ request[Len(request)].role # "user"

\* C17: a request without messages, or whose last message does not have the
\* role user, is answered with status 400 and process_chat is not called for
\* it: no call to the LLM or to the repository is made.
C17_BadRequestRejected ==
    (pc # "idle" /\ BadRequest) =>
        /\ http.status_code = 400
        /\ http.response = None
        /\ pc = "rejected"
        /\ messages = <<>>
        /\ log = <<>>

\* C17 witness: a request whose last message is the assistant's was refused.
C17_Witness ==
    /\ pc = "rejected"
    /\ request # <<>>
    /\ request[Len(request)].role = "assistant"
    /\ http.status_code = 400

\* the calls of run r to the LLM that came back
ClassifyRets(r) == {i \in DOMAIN m_log[r] : m_log[r][i].ev = "classify_ret"}

\* the frame of the process_chat call of run r holds what the run's own
\* request and the answers to the run's own calls determine
OwnDataOnly(r) ==
    LET L == m_frames[r]
        lg == m_log[r]
    IN /\ L.messages = MessagesDict(m_request[r])
       /\ ClassifyRets(r) = {} => L.relevant_siglas = <<>>
       /\ \A i \in ClassifyRets(r) :
             IF FailedReply(lg[i]) THEN L.relevant_siglas = <<>>
             ELSE L.relevant_siglas \in
                      _extract_siglas(lg[i].text[1], AVAILABLE_COURSES)
       /\ \A i \in DOMAIN lg :
             lg[i].ev = "lookup_call" => lg[i].code \in Range(L.relevant_siglas)
       /\ L.courses_context = ReturnedDocs(lg)
       /\ L.response =
             IF m_pc[r] # "done" THEN None
             ELSE IF L.courses_context = <<>> THEN Some(Fallback)
             ELSE Some(Str(Strip(Chars(lg[Len(lg)].text[1]))))

\* C18: however the runs interleave, the relevant codes, the context and
\* the answer of each run are those its own conversation and the answers to
\* its own calls give; nothing per-request is kept outside the runs' frames.
C18_RunsIsolated ==
    /\ m_frames[0] = EmptyLocals
    /\ \A r \in Tasks : OwnDataOnly(r)

\* C18 witness: two runs with different requests are both in the retrieval
\* loop, each with records in its context, and the contexts differ.
C18_Witness ==
    /\ m_pc[1] = "lookup" /\ m_pc[2] = "lookup"
    /\ m_request[1] # m_request[2]
    /\ m_frames[1].courses_context # <<>>
    /\ m_frames[2].courses_context # <<>>
    /\ m_frames[1].courses_context # m_frames[2].courses_context

\* the LLM call of run r is in flight
LLMInFlight(r) == m_pc[r] \in {"classify_llm", "generate_llm"}

C21_ScanOnlyAsFallback ==
    ex_pc = "returned" =>
        Range(ex_result) =
            IF ex_comma # <<>> THEN Range(ex_comma)
            ELSE {Str(c) : c \in WholeWordKnown}

\* C21 witness: the comma pass found a code, and another known code that is
\* a whole word of the text was not returned.
C21_Witness ==
    /\ ex_pc = "returned"
    /\ ex_comma # <<>>
    /\ \E c \in WholeWordKnown : Str(c) \notin Range(ex_result)

\* the positions of the user's messages in the conversation
UserPositions == {i \in DOMAIN f_conversation : f_conversation[i].role = "user"}

\* the prompt of the generate_response call has been built
PromptBuilt == f_pc \in {"generate_llm", "returned"}

\* C22: the question of the generation prompt is the content of the last
\* message whose role is user, the empty string when there is none, and the
\* call goes on to the LLM in both cases.
C22_QuestionIsLastUserMessage ==
    /\ f_pc = "input" => ENABLED BuildPrompt
    /\ PromptBuilt =>
          f_prompt.last_user_message =
              IF UserPositions = {} THEN ""
              ELSE f_conversation[CHOOSE i \in UserPositions :
                                      \A j \in UserPositions : j <= i].content

\* C22 witness: the call returned an answer for a conversation whose last
\* message is the assistant's and that has two messages of the user.
C22_Witness ==
    /\ f_pc = "returned"
    /\ f_out.ok
    /\ Cardinality(UserPositions) = 2
    /\ f_conversation[Len(f_conversation)].role = "assistant"
    /\ f_conversation[1].content # f_conversation[2].content

\* the rendered context holds the text
Shows(text) == Occurs(text, f_prompt.courses_context_text)

\* the record has a rating: its first professor rating has an overall value
HasRating(course) ==
    /\ course.professor_ratings # None
    /\ course.professor_ratings[1] # <<>>
    /\ course.professor_ratings[1][1].overall # None

\* the record has the text field, and it is not empty
HasText(v) == v # None /\ v[1] # ""

\* the record has the list field, and it is not empty
HasList(v) == v # None /\ v[1] # <<>>

\* C23 (as claimed): in the block of a record each optional field is shown
\* if and only if the record has it, a number 0 included, and nothing is
\* shown for a field it has not.
C23_OptionalFieldsIffPresent ==
    (PromptBuilt /\ Len(f_courses) = 1) =>
        LET course == f_courses[1]
        IN /\ Shows(" - Rating: ") <=> HasRating(course)
           /\ Shows(" - Carga: ") <=> HasText(course.workload)
           /\ Shows(" - Dificultad: ") <=> HasText(course.difficulty_level)
           /\ Shows(" - Campus: ") <=> HasText(course.campus)
           /\ Shows(" - Cupos: ") <=>
                 (course.available_slots # None /\ course.total_slots # None)
           /\ Shows("Resumen: ") <=> HasText(course.overall_summary)
           /\ Shows("Pros: ") <=> HasList(course.pros)
           /\ Shows("Contras: ") <=> HasList(course.cons)
           /\ ~Shows("None")

\* the first n elements of a list, at most 3
UpToThree(lst) == [i \in 1..Min(3, Len(lst)) |-> lst[i]]

\* C24: the block of a record shows the first 3 pros and the first 3 cons
\* of the record, in the record's order, and none of the others.
C24_AtMostThreeProsAndCons ==
    (PromptBuilt /\ Len(f_courses) = 1) =>
        LET pros == f_courses[1].pros
            cons == f_courses[1].cons
        IN /\ HasList(pros) =>
                 /\ Shows("\n  Pros: " \o JoinStr(", ", UpToThree(pros[1])))
                 /\ \A i \in DOMAIN pros[1] : Shows(pros[1][i]) <=> i <= 3
           /\ HasList(cons) =>
                 /\ Shows("\n  Contras: " \o JoinStr(", ", UpToThree(cons[1])))
                 /\ \A i \in DOMAIN cons[1] : Shows(cons[1][i]) <=> i <= 3

\* C24 witness: the block of a record with more than 3 pros and more than
\* 3 cons was rendered.
C24_Witness ==
    /\ PromptBuilt
    /\ Len(f_courses) = 1
    /\ HasList(f_courses[1].pros) /\ Len(f_courses[1].pros[1]) > 3
    /\ HasList(f_courses[1].cons) /\ Len(f_courses[1].cons[1]) > 3

\* C25 (as claimed): get_database raises whenever is_connected() is false
\* and returns the handle only when it is true.
C25_GetDatabaseRaisesUnlessConnected ==
    d_last.op = "get" => (d_last.ok <=> d_last.connected)

\* C26 (as claimed): once a call to connect_to_mongo or
\* close_mongo_connection has ended, mongodb.client is None if and only if
\* mongodb.database is None.
C26_ClientNoneIffDatabaseNone ==
    d_pc = "idle" => (d_client = None <=> d_database = None)

\* C27 (as claimed): the number of documents a search returns never exceeds
\* the limit it was given, a limit of 0 included.
C27_CountWithinLimit ==
    (s_pc = "answered" /\ s_answer.status_code = 200) =>
        s_answer.count <= s_query.limit

\* a criterion of the request is supplied
Supplied(q) ==
    \/ q.course_name # None \/ q.course_code # None \/ q.professor_name # None
    \/ q.nrc # None \/ q.min_professor_rating # None
    \/ q.workload_label # None \/ q.difficulty_level # None

\* C28 (as claimed): /search answers 400 if and only if no criterion is
\* supplied; a request with a criterion, min_professor_rating = 0 included,
\* is not answered 400.
C28_Status400IffNoCriterion ==
    s_pc = "answered" => (s_answer.status_code = 400 <=> ~Supplied(s_query))

\* C29: a failure of process_chat is answered with status 500, a request
\* the route refuses is answered with its own status 400, and the answer is
\* 200 with a response exactly when process_chat succeeded.
C29_RouteStatus ==
    /\ pc = "failed" =>
          /\ http.status_code = 500
          /\ http.detail = "Error al procesar el chat: " \o raised.msg
          /\ http.response = None
    /\ pc = "rejected" =>
          /\ http.status_code = 400
          /\ http.detail \in
                {"Debe proporcionar al menos un mensaje en la conversacion",
                 "El ultimo mensaje debe ser del usuario"}
    /\ pc = "done" <=> http.status_code = 200
    /\ pc = "done" => (http.response = response /\ response # None)
    /\ pc \in {"idle", "classify_llm", "lookup", "generate_llm"} => http = NoAnswer

\* C29 witness: a run in which a lookup returned records failed later, in
\* the generation call, and was answered 500.
C29_Witness ==
    /\ pc = "failed"
    /\ Called("generate_ret")
    /\ http.status_code = 500

Blanks == {" ", "\t", "\n", "\r"}

\* the text with the blanks at its ends removed
RECURSIVE Trimmed(_)
Trimmed(text) ==
    IF text = "" THEN ""
    ELSE IF SubSeq(text, 1, 1) \in Blanks THEN Trimmed(SubSeq(text, 2, Len(text)))
    ELSE IF SubSeq(text, Len(text), Len(text)) \in Blanks
    THEN Trimmed(SubSeq(text, 1, Len(text) - 1))
    ELSE text

\* C30: the answer of a run that succeeded is a non-empty string with no
\* blank at either end: the fixed answer, or the trimmed text of the
\* generation call, which is not blank.
C30_AnswerTrimmedNonEmpty ==
    pc = "done" =>
        LET answer == response[1]
        IN /\ answer # ""
           /\ SubSeq(answer, 1, 1) \notin Blanks
           /\ SubSeq(answer, Len(answer), Len(answer)) \notin Blanks
           /\ IF Called("generate_ret")
              THEN \A i \in Events("generate_ret") :
                      /\ ~BlankText(log[i].text)
                      /\ answer = Trimmed(log[i].text[1])
              ELSE answer = Fallback

\* C30 witness: a run succeeded with the text of a generation call that
\* had blanks around it.
C30_Witness ==
    /\ pc = "done"
    /\ \E i \in Events("generate_ret") :
          /\ log[i].text # None
          /\ log[i].text[1] # Trimmed(log[i].text[1])

====
